---- MODULE Spec2Model ----
\* srt-join: merge of two subtitle tracks (src/main.py).
\*
\* A text is modelled as the sequence of its lines (text.split("\n")), so
\* joining two texts with "\n" is the concatenation of their line sequences
\* and text.count("\n") is the number of lines minus one.
\* A formatted timecode 'HH:MM:SS,mmm' is modelled as the tuple of its four
\* numeric fields <<hour, min, sec, msec>>.
EXTENDS Integers, Sequences, FiniteSets, TLC

\* ---------------------------------------------------------------- bounds
\* longest (trimmed) input sequence of either source
MaxLen == 2
\* largest start/end of an entry handed to the sequencer, in milliseconds
MaxTime == 2
\* largest start/end of an entry handed to the overlap/merge engine
MaxMsec == 3
\* most lines in the text of an entry handed to the engine or to print_entry
MaxLines == 3
\* how far around each codec boundary value the millisecond counts are taken
CodecWindow == 20
\* largest skip_first and skip_last handed to read_subs on its own
MaxSkip == 3
\* largest start of an entry in a file, and largest skip_first, in a whole run
MaxFileTime == 1
MaxMainSkip == 1
\* unrestricted sources: largest start/end of an entry, most entries in both
\* sources together, and the same where runs are followed to their end
MaxAnyTime == 1
MaxTotal == 3
MaxLiveTotal == 2

VARIABLES
    in1,        \* main's first argument: the file's blocks and the skip counts
    in2,        \* main's second argument
    subs1,      \* read_subs(in1): the entries of source 1 after trimming
    subs2,      \* read_subs(in2)
    i1,         \* number of items iterator i1 has yielded
    i2,         \* number of items iterator i2 has yielded
    s1,         \* cursor 1: None or <<index, entry>>
    s2,         \* cursor 2
    new_idx,    \* output index counter
    out,        \* the blocks printed so far, in order
    warnings,   \* the warn() calls so far, in order
    pc,         \* position in main: "read1", "read2", "start", "loop",
                \* "drain1", "drain2", "done", or "aborted" by an exception
    fn,         \* function harness: the function applied ("none" before the call)
    a1,         \* function harness: first argument
    a2,         \* function harness: second argument
    ret         \* function harness: the returned value, or the error raised

vars == <<in1, in2, subs1, subs2, i1, i2, s1, s2, new_idx, out, warnings, pc,
          fn, a1, a2, ret>>
seqvars == <<in1, in2, subs1, subs2, i1, i2, s1, s2, new_idx, out, warnings, pc>>
inpvars == <<in1, in2>>
engvars == <<fn, a1, a2, ret>>

\* ---------------------------------------------------------------- values
None == <<>>

SubtitleEntry(start, end, text) == [start |-> start, end |-> end, text |-> text]

\* the single text line of the entry at position p of source k
LineName == << <<"A1", "A2", "A3", "A4">>, <<"B1", "B2", "B3", "B4">> >>

Min(x, y) == IF x <= y THEN x ELSE y
Max(x, y) == IF x >= y THEN x ELSE y

\* ---------------------------------------------------------------- codec
\* srt_timecode_to_msecs counting a minute as 1000 * 6 milliseconds
srt_timecode_to_msecs_short_minute(tc) ==
    LET hour == tc[1]
        min  == tc[2]
        sec  == tc[3]
        msec == tc[4]
    IN  msec + (sec * 1000) + (min * 1000 * 6) + (hour * 1000 * 60 * 60)

srt_timecode_to_msecs(tc) ==
    LET hour == tc[1]
        min  == tc[2]
        sec  == tc[3]
        msec == tc[4]
    IN  msec + (sec * 1000) + (min * 1000 * 60) + (hour * 1000 * 60 * 60)

msecs_to_srt_timecode(xsecs) ==
    LET msec == xsecs % 1000
        x1   == xsecs \div 1000
        sec  == x1 % 60
        x2   == x1 \div 60
        hour == x2 \div 60
        min  == x2 % 60
    IN  <<hour, min, sec, msec>>

\* ---------------------------------------------------------------- engine
\* has_overlap without the last case (e1 inside e2)
has_overlap_no_case4(e1, e2) ==
    IF e1.start <= e2.start /\ e1.end >= e2.start THEN TRUE
    ELSE IF e1.end >= e2.end /\ e1.start <= e2.end THEN TRUE
    ELSE IF e1.start <= e2.start /\ e1.end >= e2.end THEN TRUE
    ELSE FALSE

\* has_overlap without the second case (e2 ends inside e1)
has_overlap_no_case2(e1, e2) ==
    IF e1.start <= e2.start /\ e1.end >= e2.start THEN TRUE
    ELSE IF e1.start <= e2.start /\ e1.end >= e2.end THEN TRUE
    ELSE IF e1.start >= e2.start /\ e1.end <= e2.end THEN TRUE
    ELSE FALSE

\* has_overlap with the end of an interval excluded from it
has_overlap_strict(e1, e2) ==
    IF e1.start <= e2.start /\ e1.end > e2.start THEN TRUE
    ELSE IF e1.end > e2.end /\ e1.start < e2.end THEN TRUE
    ELSE IF e1.start <= e2.start /\ e1.end > e2.end THEN TRUE
    ELSE IF e1.start > e2.start /\ e1.end < e2.end THEN TRUE
    ELSE FALSE

\* has_overlap whose first case forgets to compare e1.end with e2.start
has_overlap_case1_open(e1, e2) ==
    IF e1.start <= e2.start THEN TRUE
    ELSE IF e1.end >= e2.end /\ e1.start <= e2.end THEN TRUE
    ELSE IF e1.start <= e2.start /\ e1.end >= e2.end THEN TRUE
    ELSE IF e1.start >= e2.start /\ e1.end <= e2.end THEN TRUE
    ELSE FALSE

\* has_overlap without the first case (e2 starts inside e1)
has_overlap_no_case1(e1, e2) ==
    IF e1.end >= e2.end /\ e1.start <= e2.end THEN TRUE
    ELSE IF e1.start <= e2.start /\ e1.end >= e2.end THEN TRUE
    ELSE IF e1.start >= e2.start /\ e1.end <= e2.end THEN TRUE
    ELSE FALSE

has_overlap(e1, e2) ==
    IF e1.start <= e2.start /\ e1.end >= e2.start THEN TRUE
    ELSE IF e1.end >= e2.end /\ e1.start <= e2.end THEN TRUE
    ELSE IF e1.start <= e2.start /\ e1.end >= e2.end THEN TRUE
    ELSE IF e1.start >= e2.start /\ e1.end <= e2.end THEN TRUE
    ELSE FALSE

\* merge_entries taking the end of the second entry instead of the later end
merge_entries_end_of_second(e1, e2) ==
    LET begin == Min(e1.start, e2.start)
        end   == e2.end
        text  == IF begin = e1.start THEN e1.text \o e2.text
                                     ELSE e2.text \o e1.text
    IN  SubtitleEntry(begin, end, text)

\* merge_entries testing the start of the second entry for the text order
merge_entries_second_on_tie(e1, e2) ==
    LET begin == Min(e1.start, e2.start)
        end   == Max(e1.end, e2.end)
        text  == IF begin = e2.start THEN e2.text \o e1.text
                                     ELSE e1.text \o e2.text
    IN  SubtitleEntry(begin, end, text)

merge_entries(e1, e2) ==
    LET begin == Min(e1.start, e2.start)
        end   == Max(e1.end, e2.end)
        text  == IF begin = e1.start THEN e1.text \o e2.text
                                     ELSE e2.text \o e1.text
    IN  SubtitleEntry(begin, end, text)

\* the test of line 113 with the comparison turned round
starts_first_flipped(e1, e2) == e1.start > e2.start

\* the test of line 113: cursor 1 is the one to advance
starts_first(e1, e2) == e1.start < e2.start

\* ---------------------------------------------------------------- output
\* the block print_entry returns
print_entry(entry, index) ==
    [index |-> index,
     start |-> msecs_to_srt_timecode(entry.start),
     end   |-> msecs_to_srt_timecode(entry.end),
     text  |-> entry.text]

\* print_entry warning from the first line break on
print_entry_warn_any_break(entry) ==
    IF Len(entry.text) - 1 > 0 THEN << <<"lines", entry>> >> ELSE <<>>

\* the warning print_entry raises on the way, if any
print_entry_warn(entry) ==
    IF Len(entry.text) - 1 > 1 THEN << <<"lines", entry>> >> ELSE <<>>

overlap_warning(c1, c2) == <<"overlap", c1[1], c2[1], c1[2], c2[2]>>

\* next_item indexing the list one place too far
next_item_from_second(subs, n) ==
    IF n + 1 < Len(subs) THEN <<n + 1, subs[n + 2]>> ELSE None

\* next(iter(enumerate(subs)), None) for an iterator that has yielded n items:
\* the cursor it returns, and the number of items yielded afterwards
next_item(subs, n) == IF n < Len(subs) THEN <<n, subs[n + 1]>> ELSE None
next_count(subs, n) == IF n < Len(subs) THEN n + 1 ELSE n

\* ---------------------------------------------------------------- parsing
\* A block of a file is modelled by the five tokens re.split gives:
\* [idx, start, arrow, end, text]; a timecode that does not split into four
\* fields is a tuple of another length.
ValueError == <<"ValueError">>

Input(blocks, skip_first, skip_last) ==
    [blocks |-> blocks, skip_first |-> skip_first, skip_last |-> skip_last]

\* the unpackings of lines 16 and 18 succeed
well_formed(tc) == Len(tc) = 4

\* _do_entry without the test of the arrow token
do_entry_no_arrow_check(token) ==
    IF ~well_formed(token.start) \/ ~well_formed(token.end) THEN ValueError
    ELSE <<"ok", SubtitleEntry(srt_timecode_to_msecs(token.start),
                               srt_timecode_to_msecs(token.end), token.text)>>

\* _do_entry: the entry of a block, or the ValueError raised
do_entry(token) ==
    IF token.arrow # "-->" THEN ValueError
    ELSE IF ~well_formed(token.start) \/ ~well_formed(token.end) THEN ValueError
    ELSE <<"ok", SubtitleEntry(srt_timecode_to_msecs(token.start),
                               srt_timecode_to_msecs(token.end), token.text)>>

\* islice(subs, start, stop): a negative stop raises ValueError
islice(subs, start, stop) ==
    IF stop < 0 THEN ValueError
    ELSE <<"ok", [p \in 1 .. Max(0, Min(stop, Len(subs)) - start) |-> subs[start + p]]>>

\* read_subs: every block is parsed first, then the list is trimmed
read_subs(inp) ==
    LET parsed == [p \in 1 .. Len(inp.blocks) |-> do_entry(inp.blocks[p])]
    IN  IF \E p \in 1 .. Len(parsed) : parsed[p] = ValueError THEN ValueError
        ELSE LET subs == [p \in 1 .. Len(parsed) |-> parsed[p][2]]
             IN  islice(subs, inp.skip_first, Len(subs) - inp.skip_last)

\* ---------------------------------------------------------------- inputs
Times == 0 .. MaxTime
Intervals == Times \X Times

\* every entry has start <= end
valid_entries(subs) == \A p \in 1 .. Len(subs) : subs[p].start <= subs[p].end

\* the source is sorted by start, ascending
sorted_by_start(subs) ==
    \A p \in 1 .. Len(subs) - 1 : subs[p].start <= subs[p + 1].start

\* the input sequences of source k: any length up to MaxLen; as the sequencer
\* expects them, sorted by start and with start <= end in every entry
Inputs(k) ==
    UNION { { subs \in { [p \in 1 .. n |->
                            SubtitleEntry(iv[p][1], iv[p][2], <<LineName[k][p]>>)]
                        : iv \in [1 .. n -> Intervals] }
              : valid_entries(subs) /\ sorted_by_start(subs) }
            : n \in 0 .. MaxLen }

\* the blocks a file of source k may hold at position p: a well-formed block
\* of a one-instant entry, a block with a wrong arrow token, and a block
\* whose end timecode lacks its millisecond field
FileBlocks(k, p) ==
    { [idx |-> p, start |-> msecs_to_srt_timecode(t), arrow |-> "-->",
       end |-> msecs_to_srt_timecode(t), text |-> <<LineName[k][p]>>]
      : t \in 0 .. MaxFileTime }
    \cup { [idx |-> p, start |-> msecs_to_srt_timecode(0), arrow |-> "->",
            end |-> msecs_to_srt_timecode(0), text |-> <<LineName[k][p]>>],
           [idx |-> p, start |-> msecs_to_srt_timecode(0), arrow |-> "-->",
            end |-> <<0, 0, 0>>, text |-> <<LineName[k][p]>>] }

\* the files of source k: up to MaxLen blocks, in any order of start
Files(k) ==
    UNION { { f \in [1 .. n -> UNION { FileBlocks(k, p) : p \in 1 .. n }]
              : \A p \in 1 .. n : f[p] \in FileBlocks(k, p) }
            : n \in 0 .. MaxLen }

EngineTimes == 0 .. MaxMsec
\* the entries of source k with one to MaxLines lines of text
EngineEntries(k) ==
    { SubtitleEntry(s, e, [l \in 1 .. n |-> LineName[k][l]])
      : s \in EngineTimes, e \in EngineTimes, n \in 1 .. MaxLines }

\* ---------------------------------------------------------------- main
Init ==
    /\ subs1 \in Inputs(1)
    /\ subs2 \in Inputs(2)
    /\ s1 = next_item(subs1, 0)
    /\ i1 = next_count(subs1, 0)
    /\ s2 = next_item(subs2, 0)
    /\ i2 = next_count(subs2, 0)
    /\ new_idx = 0
    /\ out = <<>>
    /\ warnings = <<>>
    /\ pc = "loop"
    /\ in1 = None /\ in2 = None
    /\ fn = "none" /\ a1 = None /\ a2 = None /\ ret = None

\* one iteration of the outer loop with both cursors active (lines 104-123)
BothActive ==
    /\ pc = "loop"
    /\ s1 # None /\ s2 # None
    /\ LET idx     == new_idx + 1
           ov      == has_overlap(s1[2], s2[2])
           merged  == merge_entries(s1[2], s2[2])
           first   == starts_first(s1[2], s2[2])
           emitted == IF ov THEN merged ELSE IF first THEN s1[2] ELSE s2[2]
       IN  /\ new_idx' = idx
           /\ warnings' = warnings
                          \o (IF ov THEN <<overlap_warning(s1, s2)>> ELSE <<>>)
                          \o print_entry_warn(emitted)
           /\ out' = Append(out, print_entry(emitted, idx))
           /\ IF first
              THEN /\ s1' = next_item(subs1, i1)
                   /\ i1' = next_count(subs1, i1)
                   /\ UNCHANGED <<s2, i2>>
              ELSE /\ s2' = next_item(subs2, i2)
                   /\ i2' = next_count(subs2, i2)
                   /\ UNCHANGED <<s1, i1>>
    /\ UNCHANGED <<subs1, subs2, pc>>
    /\ UNCHANGED engvars
    /\ UNCHANGED inpvars

\* an iteration of the outer loop with one cursor exhausted: line 104, then
\* control falls to the first drain loop
EnterDrain ==
    /\ pc = "loop"
    /\ (s1 = None) # (s2 = None)
    /\ new_idx' = new_idx + 1
    /\ pc' = "drain1"
    /\ UNCHANGED <<subs1, subs2, i1, i2, s1, s2, out, warnings>>
    /\ UNCHANGED engvars
    /\ UNCHANGED inpvars

\* the first drain loop calling next() twice per iteration
Drain1_SkipsOne ==
    /\ pc = "drain1"
    /\ s1 # None
    /\ out' = Append(out, print_entry(s1[2], new_idx))
    /\ warnings' = warnings \o print_entry_warn(s1[2])
    /\ s1' = next_item(subs1, next_count(subs1, i1))
    /\ i1' = next_count(subs1, next_count(subs1, i1))
    /\ new_idx' = new_idx + 1
    /\ UNCHANGED <<subs1, subs2, i2, s2, pc>>
    /\ UNCHANGED engvars
    /\ UNCHANGED inpvars

\* the first drain loop with the excessive-line warning turned into an error:
\* the exception ends the run before the block is printed
Drain1_RaisesOnLines ==
    /\ pc = "drain1"
    /\ s1 # None
    /\ IF print_entry_warn(s1[2]) # <<>>
       THEN /\ pc' = "aborted"
            /\ UNCHANGED <<out, warnings, s1, i1, new_idx>>
       ELSE /\ out' = Append(out, print_entry(s1[2], new_idx))
            /\ warnings' = warnings
            /\ s1' = next_item(subs1, i1)
            /\ i1' = next_count(subs1, i1)
            /\ new_idx' = new_idx + 1
            /\ pc' = pc
    /\ UNCHANGED <<subs1, subs2, i2, s2>>
    /\ UNCHANGED engvars
    /\ UNCHANGED inpvars

\* one iteration of 'while s1 is not None' (lines 124-127)
Drain1 ==
    /\ pc = "drain1"
    /\ s1 # None
    /\ out' = Append(out, print_entry(s1[2], new_idx))
    /\ warnings' = warnings \o print_entry_warn(s1[2])
    /\ s1' = next_item(subs1, i1)
    /\ i1' = next_count(subs1, i1)
    /\ new_idx' = new_idx + 1
    /\ UNCHANGED <<subs1, subs2, i2, s2, pc>>
    /\ UNCHANGED engvars
    /\ UNCHANGED inpvars

\* 'while s1 is not None' ends
Drain1Exit ==
    /\ pc = "drain1"
    /\ s1 = None
    /\ pc' = "drain2"
    /\ UNCHANGED <<subs1, subs2, i1, i2, s1, s2, new_idx, out, warnings>>
    /\ UNCHANGED engvars
    /\ UNCHANGED inpvars

\* the second drain loop without its 'new_idx += 1'
Drain2_NoIncrement ==
    /\ pc = "drain2"
    /\ s2 # None
    /\ out' = Append(out, print_entry(s2[2], new_idx))
    /\ warnings' = warnings \o print_entry_warn(s2[2])
    /\ s2' = next_item(subs2, i2)
    /\ i2' = next_count(subs2, i2)
    /\ UNCHANGED <<subs1, subs2, i1, s1, pc, new_idx>>
    /\ UNCHANGED engvars
    /\ UNCHANGED inpvars

\* one iteration of 'while s2 is not None' (lines 128-131)
Drain2 ==
    /\ pc = "drain2"
    /\ s2 # None
    /\ out' = Append(out, print_entry(s2[2], new_idx))
    /\ warnings' = warnings \o print_entry_warn(s2[2])
    /\ s2' = next_item(subs2, i2)
    /\ i2' = next_count(subs2, i2)
    /\ new_idx' = new_idx + 1
    /\ UNCHANGED <<subs1, subs2, i1, s1, pc>>
    /\ UNCHANGED engvars
    /\ UNCHANGED inpvars

\* 'while s2 is not None' ends; back to the outer loop test
Drain2Exit ==
    /\ pc = "drain2"
    /\ s2 = None
    /\ pc' = "loop"
    /\ UNCHANGED <<subs1, subs2, i1, i2, s1, s2, new_idx, out, warnings>>
    /\ UNCHANGED engvars
    /\ UNCHANGED inpvars

\* the outer loop tested with 'and': it ends as soon as one cursor is exhausted
LoopExit_OnEither ==
    /\ pc = "loop"
    /\ (s1 = None \/ s2 = None)
    /\ pc' = "done"
    /\ UNCHANGED <<subs1, subs2, i1, i2, s1, s2, new_idx, out, warnings>>
    /\ UNCHANGED engvars
    /\ UNCHANGED inpvars

\* the outer loop test fails: main returns
LoopExit ==
    /\ pc = "loop"
    /\ s1 = None /\ s2 = None
    /\ pc' = "done"
    /\ UNCHANGED <<subs1, subs2, i1, i2, s1, s2, new_idx, out, warnings>>
    /\ UNCHANGED engvars
    /\ UNCHANGED inpvars

Next ==
    \/ BothActive
    \/ EnterDrain
    \/ Drain1
    \/ Drain1Exit
    \/ Drain2
    \/ Drain2Exit
    \/ LoopExit

Spec == Init /\ [][Next]_vars

\* main is a single thread that runs until it returns: a step that can be
\* taken is taken
SpecLive == Init /\ [][Next]_vars /\ WF_vars(Next)

\* ------------------------------------------------- unrestricted sources
\* read_subs returns whatever the file holds: entries in any order of start,
\* with end before start, and with texts of several lines. An entry has any
\* start and end up to MaxAnyTime and a text of one line or of MaxLines lines:
\* the choices <<start, end, number of lines>> are
AnyEntries ==
    (0 .. MaxAnyTime) \X (0 .. MaxAnyTime) \X {1, MaxLines}

\* the sequences of n such entries of source k: entry p is made of the
\* start, the end and the number of lines chosen for it
AnyInputs(k, n) ==
    { [p \in 1 .. n |->
          SubtitleEntry(c[p][1], c[p][2], [l \in 1 .. c[p][3] |-> LineName[k][p]])]
      : c \in [1 .. n -> AnyEntries] }

\* lines 98-102 on two such sources of at most m entries together
AnyStart(m) ==
    /\ \E n1 \in 0 .. m : \E n2 \in 0 .. m - n1 :
          /\ subs1 \in AnyInputs(1, n1)
          /\ subs2 \in AnyInputs(2, n2)
    /\ s1 = next_item(subs1, 0)
    /\ i1 = next_count(subs1, 0)
    /\ s2 = next_item(subs2, 0)
    /\ i2 = next_count(subs2, 0)
    /\ new_idx = 0
    /\ out = <<>>
    /\ warnings = <<>>
    /\ pc = "loop"
    /\ in1 = None /\ in2 = None
    /\ fn = "none" /\ a1 = None /\ a2 = None /\ ret = None

AnyInit == AnyStart(MaxTotal)

SpecAny == AnyInit /\ [][Next]_vars

\* runs followed to their end: the sources are as in Init, or any sources of
\* at most MaxLiveTotal entries together
LiveInit == Init \/ AnyStart(MaxLiveTotal)

SpecAnyLive == LiveInit /\ [][Next]_vars /\ WF_vars(Next)

\* ------------------------------------------------- the whole run
\* main from its call: both files are read, then the scan starts. Each file
\* comes with a skip_first option; skip_last is exercised on read_subs alone.
MainInit ==
    /\ in1 \in { Input(f, sf, 0) : f \in Files(1), sf \in 0 .. MaxMainSkip }
    /\ in2 \in { Input(f, sf, 0) : f \in Files(2), sf \in 0 .. MaxMainSkip }
    /\ subs1 = <<>> /\ subs2 = <<>>
    /\ s1 = None /\ s2 = None /\ i1 = 0 /\ i2 = 0
    /\ new_idx = 0 /\ out = <<>> /\ warnings = <<>>
    /\ pc = "read1"
    /\ fn = "none" /\ a1 = None /\ a2 = None /\ ret = None

\* line 96: read_subs(in1), or the exception it raises ends the run
ReadSubs1 ==
    /\ pc = "read1"
    /\ LET r == read_subs(in1)
       IN  IF r = ValueError
           THEN pc' = "aborted" /\ UNCHANGED subs1
           ELSE pc' = "read2" /\ subs1' = r[2]
    /\ UNCHANGED <<subs2, i1, i2, s1, s2, new_idx, out, warnings>>
    /\ UNCHANGED engvars
    /\ UNCHANGED inpvars

\* line 97: read_subs(in2)
ReadSubs2 ==
    /\ pc = "read2"
    /\ LET r == read_subs(in2)
       IN  IF r = ValueError
           THEN pc' = "aborted" /\ UNCHANGED subs2
           ELSE pc' = "start" /\ subs2' = r[2]
    /\ UNCHANGED <<subs1, i1, i2, s1, s2, new_idx, out, warnings>>
    /\ UNCHANGED engvars
    /\ UNCHANGED inpvars

\* lines 98-102: the iterators, the first cursors and the counter
StartScan ==
    /\ pc = "start"
    /\ s1' = next_item(subs1, 0)
    /\ i1' = next_count(subs1, 0)
    /\ s2' = next_item(subs2, 0)
    /\ i2' = next_count(subs2, 0)
    /\ new_idx' = 0
    /\ pc' = "loop"
    /\ UNCHANGED <<subs1, subs2, out, warnings>>
    /\ UNCHANGED engvars
    /\ UNCHANGED inpvars

MainNext ==
    \/ ReadSubs1
    \/ ReadSubs2
    \/ StartScan
    \/ BothActive
    \/ EnterDrain
    \/ Drain1
    \/ Drain1Exit
    \/ Drain2
    \/ Drain2Exit
    \/ LoopExit

SpecMain == MainInit /\ [][MainNext]_vars

\* ------------------------------------------------- read_subs harness
\* read_subs applied to one file with any skip counts up to MaxSkip.
TrimInit ==
    /\ a1 \in { Input(f, sf, sl) : f \in Files(1), sf \in 0 .. MaxSkip,
                                   sl \in 0 .. MaxSkip }
    /\ a2 = None
    /\ fn = "none"
    /\ ret = None
    /\ in1 = None /\ in2 = None
    /\ subs1 = <<>> /\ subs2 = <<>>
    /\ s1 = None /\ s2 = None /\ i1 = 0 /\ i2 = 0
    /\ new_idx = 0 /\ out = <<>> /\ warnings = <<>> /\ pc = "done"

CallReadSubs ==
    /\ fn = "none"
    /\ fn' = "read_subs"
    /\ ret' = read_subs(a1)
    /\ UNCHANGED <<a1, a2>>
    /\ UNCHANGED seqvars

TrimNext == CallReadSubs

SpecTrim == TrimInit /\ [][TrimNext]_vars

\* ------------------------------------------------- engine harness
\* The overlap/merge engine applied to any two entries, end < start included.
EngineInit ==
    /\ a1 \in EngineEntries(1)
    /\ a2 \in EngineEntries(2)
    /\ fn = "none"
    /\ ret = None
    /\ in1 = None /\ in2 = None
    /\ subs1 = <<>> /\ subs2 = <<>>
    /\ s1 = None /\ s2 = None /\ i1 = 0 /\ i2 = 0
    /\ new_idx = 0 /\ out = <<>> /\ warnings = <<>> /\ pc = "done"

CallHasOverlap ==
    /\ fn = "none"
    /\ fn' = "has_overlap"
    /\ ret' = <<has_overlap(a1, a2)>>
    /\ UNCHANGED <<a1, a2>>
    /\ UNCHANGED seqvars

CallMergeEntries ==
    /\ fn = "none"
    /\ fn' = "merge_entries"
    /\ ret' = <<merge_entries(a1, a2)>>
    /\ UNCHANGED <<a1, a2>>
    /\ UNCHANGED seqvars

\* print_entry on a source entry: the block and the warnings raised
CallPrintEntry ==
    /\ fn = "none"
    /\ fn' = "print_entry"
    /\ ret' = <<print_entry(a1, 1), print_entry_warn(a1)>>
    /\ UNCHANGED <<a1, a2>>
    /\ UNCHANGED seqvars

\* line 111: print_entry on the merge of two entries
CallPrintMerged ==
    /\ fn = "none"
    /\ fn' = "print_merged"
    /\ ret' = <<print_entry(merge_entries(a1, a2), 1),
                print_entry_warn(merge_entries(a1, a2))>>
    /\ UNCHANGED <<a1, a2>>
    /\ UNCHANGED seqvars

EngineNext ==
    \/ CallHasOverlap
    \/ CallMergeEntries
    \/ CallPrintEntry
    \/ CallPrintMerged

SpecEngine == EngineInit /\ [][EngineNext]_vars

\* ------------------------------------------------- codec harness
\* A millisecond count is formatted and the result parsed back.
CodecBases == {0, 1000, 60000, 3600000, 3661001, 360000000}
CodecValues ==
    { m \in { b + d : b \in CodecBases, d \in (0 - CodecWindow) .. CodecWindow }
      : m >= 0 }

CodecInit ==
    /\ a1 \in CodecValues
    /\ a2 = None
    /\ fn = "none"
    /\ ret = None
    /\ in1 = None /\ in2 = None
    /\ subs1 = <<>> /\ subs2 = <<>>
    /\ s1 = None /\ s2 = None /\ i1 = 0 /\ i2 = 0
    /\ new_idx = 0 /\ out = <<>> /\ warnings = <<>> /\ pc = "done"

CallFormat ==
    /\ fn = "none"
    /\ fn' = "msecs_to_srt_timecode"
    /\ ret' = <<msecs_to_srt_timecode(a1)>>
    /\ UNCHANGED <<a1, a2>>
    /\ UNCHANGED seqvars

\* the formatted timecode is handed to the parser
CallParse ==
    /\ fn = "msecs_to_srt_timecode"
    /\ fn' = "srt_timecode_to_msecs"
    /\ a2' = ret[1]
    /\ ret' = <<srt_timecode_to_msecs(ret[1])>>
    /\ UNCHANGED a1
    /\ UNCHANGED seqvars

CodecNext ==
    \/ CallFormat
    \/ CallParse

SpecCodec == CodecInit /\ [][CodecNext]_vars

\* ================================================================ properties
\* the closed intervals of two entries share at least one instant
Intersects(a, b) == a.start <= b.end /\ b.start <= a.end

\* the entry a printed block stands for, with its timecodes parsed back
OutEntry(o) ==
    SubtitleEntry(srt_timecode_to_msecs(o.start), srt_timecode_to_msecs(o.end), o.text)

\* the overlap warnings among the first n warnings raised
OverlapWarnings(n) == { k \in 1 .. n : warnings[k][1] = "overlap" }

BothPending == pc = "loop" /\ s1 # None /\ s2 # None

\* the cursor that follows cursor c in source subs
Following(subs, c) ==
    IF c[1] + 1 < Len(subs) THEN <<c[1] + 1, subs[c[1] + 2]>> ELSE None

\* the index of the last block printed, 0 before the first
LastIndex == IF out = <<>> THEN 0 ELSE out[Len(out)].index

\* this step prints exactly one more block: entry e under the next index
Emits(e) ==
    /\ Len(out') = Len(out) + 1
    /\ SubSeq(out', 1, Len(out)) = out
    /\ OutEntry(out'[Len(out')]) = e
    /\ out'[Len(out')].index = LastIndex + 1

\* C1: whenever both cursors are active and their pending entries overlap, the
\* step emits exactly merge(s1, s2) under the next index and advances both
\* cursors, so neither source entry can be emitted again.
C1_OverlapConsumesBoth ==
    [][ (BothPending /\ Intersects(s1[2], s2[2]))
        => /\ out' = Append(out, print_entry(merge_entries(s1[2], s2[2]), Len(out) + 1))
           /\ s1' = Following(subs1, s1)
           /\ s2' = Following(subs2, s2) ]_vars

\* C2: at the end of a run the number of emitted entries is the sum of the two
\* input lengths minus the number of overlap warnings raised.
C2_EmittedCount ==
    pc = "done"
    => Len(out) = Len(subs1) + Len(subs2) - Cardinality(OverlapWarnings(Len(warnings)))

\* C3: the k-th emitted entry carries index k: the indices are 1, 2, ..., N
\* without gap or repeat, in every phase of the run.
C3_SequentialIndex == \A k \in 1 .. Len(out) : out[k].index = k

\* a finished run with an overlap step, a non-overlap step and a drained entry
C3_Witness ==
    /\ pc = "done"
    /\ Len(out) = 4
    /\ Len(warnings) = 1
    /\ out[1].text = <<"A1">>
    /\ Len(out[2].text) = 2
    /\ out[4].text = <<"B2">>

\* C4: with both sources sorted by start, the start times of the emitted
\* entries never decrease in emission order.
C4_ChronologicalStarts ==
    \A k \in 1 .. Len(out) - 1 : OutEntry(out[k]).start <= OutEntry(out[k + 1]).start

\* a finished run that interleaved the sources, merged a pair and drained
C4_Witness ==
    /\ pc = "done"
    /\ Len(out) = 4
    /\ Len(warnings) >= 1
    /\ OutEntry(out[1]).start < OutEntry(out[4]).start
    /\ out[1].text = <<"B1">>
    /\ out[4].text = <<"A2">>

\* C5 as claimed: every pair of an entry of source 1 and an entry of source 2
\* whose closed intervals intersect has got its overlap warning by the end.
C5_EveryIntersectingPairWarned ==
    pc = "done"
    => \A p \in 1 .. Len(subs1), q \in 1 .. Len(subs2) :
          Intersects(subs1[p], subs2[q])
          => \E k \in OverlapWarnings(Len(warnings)) :
                warnings[k] = <<"overlap", p - 1, q - 1, subs1[p], subs2[q]>>

\* C5 amended: for every entry a of source 1 and every entry b of source 2
\* whose closed intervals intersect and which are the two pending entries at
\* the same time, the step taken then raises an overlap warning naming a and
\* b by their positions; a warning once raised stays raised. The sources are
\* any sequences: unsorted, with end before start, with texts of many lines.
C5_PendingPairWarned ==
    [][ /\ Len(warnings') >= Len(warnings)
        /\ SubSeq(warnings', 1, Len(warnings)) = warnings
        /\ (BothPending /\ Intersects(s1[2], s2[2]))
           => \E k \in Len(warnings) + 1 .. Len(warnings') :
                 warnings'[k] = <<"overlap", s1[1], s2[1],
                                  subs1[s1[1] + 1], subs2[s2[1] + 1]>> ]_vars

\* the pending pair A1, B1 intersected and got its warning, followed by the
\* excessive-line warning of the merge; A1 and B2 intersect as well but were
\* never pending together, and no warning names them
C5_Witness ==
    /\ pc = "done"
    /\ Len(subs1) = 1 /\ Len(subs2) = 2
    /\ Intersects(subs1[1], subs2[1])
    /\ Intersects(subs1[1], subs2[2])
    /\ Len(warnings) = 2
    /\ warnings[1] = <<"overlap", 0, 0, subs1[1], subs2[1]>>
    /\ warnings[2][1] = "lines"
    /\ \A k \in OverlapWarnings(Len(warnings)) :
          <<warnings[k][2], warnings[k][3]>> # <<0, 1>>

\* no entry of source 1 intersects any entry of source 2
NoCrossOverlap ==
    \A p \in 1 .. Len(subs1), q \in 1 .. Len(subs2) : ~Intersects(subs1[p], subs2[q])

\* C6: when no entry of source 1 overlaps any entry of source 2, each step
\* with both cursors active emits the pending entry with the smaller start,
\* unchanged, and advances only that entry's cursor; the finished output is
\* exactly the entries of both sources, each once, ordered by start.
C6_NoOverlapInterleave ==
    /\ [][ (NoCrossOverlap /\ BothPending)
           => \/ /\ s1[2].start < s2[2].start
                 /\ Emits(s1[2])
                 /\ s1' = Following(subs1, s1)
                 /\ s2' = s2
              \/ /\ s2[2].start < s1[2].start
                 /\ Emits(s2[2])
                 /\ s2' = Following(subs2, s2)
                 /\ s1' = s1 ]_vars
    /\ []( (pc = "done" /\ NoCrossOverlap)
           => /\ Len(out) = Len(subs1) + Len(subs2)
              /\ \A p \in 1 .. Len(subs1) :
                    \E k \in 1 .. Len(out) : OutEntry(out[k]) = subs1[p]
              /\ \A q \in 1 .. Len(subs2) :
                    \E k \in 1 .. Len(out) : OutEntry(out[k]) = subs2[q]
              /\ \A k \in 1 .. Len(out) - 1 :
                    OutEntry(out[k]).start <= OutEntry(out[k + 1]).start )

\* a finished run over non-overlapping sources that alternated B1, A1, B2
C6_Witness ==
    /\ pc = "done"
    /\ NoCrossOverlap
    /\ Len(out) = 3
    /\ OutEntry(out[1]) = subs2[1]
    /\ OutEntry(out[2]) = subs1[1]
    /\ OutEntry(out[3]) = subs2[2]

\* exactly one cursor is exhausted
OneExhausted == (s1 = None) # (s2 = None)

\* the last entry of the source, when it was the last block printed
EndsOn(subs) == subs # <<>> /\ OutEntry(out[Len(out)]) = subs[Len(subs)]

\* C7: once one cursor is exhausted while the other is active, every step
\* that prints anything prints the pending entry of the active source,
\* unchanged, under the index after the last one used, and moves that cursor
\* to the following entry of its source, so that no entry is skipped or
\* printed twice; the exhausted cursor stays exhausted, and nothing is
\* printed once both are exhausted. From such a state the run comes to its
\* end, and it does not end before both cursors are exhausted, every entry
\* of both sources has been yielded, and the last block printed is the last
\* entry of a source, unchanged.
C7_Drain ==
    /\ [][ /\ (s1 # None /\ s2 = None)
              => \/ out' = out /\ s1' = s1 /\ s2' = s2
                 \/ /\ Emits(subs1[s1[1] + 1])
                    /\ s1' = Following(subs1, s1)
                    /\ s2' = None
           /\ (s2 # None /\ s1 = None)
              => \/ out' = out /\ s1' = s1 /\ s2' = s2
                 \/ /\ Emits(subs2[s2[1] + 1])
                    /\ s2' = Following(subs2, s2)
                    /\ s1' = None
           /\ (s1 = None /\ s2 = None)
              => out' = out /\ s1' = None /\ s2' = None ]_vars
    /\ []( pc = "done"
           => /\ s1 = None /\ s2 = None
              /\ i1 = Len(subs1) /\ i2 = Len(subs2)
              /\ out # <<>> => (EndsOn(subs1) \/ EndsOn(subs2)) )
    /\ OneExhausted ~> (pc = "done" /\ s1 = None /\ s2 = None)

\* source 1 ran out after its only entry and both entries of source 2 were
\* then drained in order
C7_Witness ==
    /\ pc = "done"
    /\ Len(subs1) = 1
    /\ Len(subs2) = 2
    /\ warnings = <<>>
    /\ Len(out) = 3
    /\ out[1].text = <<"A1">>
    /\ OutEntry(out[2]) = subs2[1] /\ out[2].index = 2
    /\ OutEntry(out[3]) = subs2[2] /\ out[3].index = 3

\* C8: for entries with start <= end, has_overlap(e1, e2) is true iff the
\* closed intervals intersect: e1.start <= e2.end and e2.start <= e1.end.
C8_OverlapIffIntersect ==
    (fn = "has_overlap" /\ a1.start <= a1.end /\ a2.start <= a2.end)
    => ret[1] = (a1.start <= a2.end /\ a2.start <= a1.end)

\* has_overlap answered TRUE for two intervals that only touch
C8_Witness ==
    /\ fn = "has_overlap"
    /\ a1.start < a1.end
    /\ a2.start < a2.end
    /\ a2.end = a1.start
    /\ ret = <<TRUE>>

\* C9: has_overlap is symmetric for all entries, end < start included.
C9_OverlapSymmetric ==
    fn = "has_overlap" => ret[1] = has_overlap(a2, a1)

\* has_overlap answered TRUE for a pair whose first entry has end < start
C9_Witness ==
    /\ fn = "has_overlap"
    /\ a1.end < a1.start
    /\ a2.start < a2.end
    /\ ret = <<TRUE>>

\* C10: merge_entries(e1, e2) starts at the smaller of the two starts and
\* ends at the larger of the two ends.
C10_MergeInterval ==
    fn = "merge_entries"
    => /\ ret[1].start \in {a1.start, a2.start}
       /\ ret[1].start <= a1.start /\ ret[1].start <= a2.start
       /\ ret[1].end \in {a1.end, a2.end}
       /\ ret[1].end >= a1.end /\ ret[1].end >= a2.end

\* a merge whose start comes from the second entry and whose end from the first
C10_Witness ==
    /\ fn = "merge_entries"
    /\ a2.start < a1.start
    /\ a2.end < a1.end
    /\ ret[1].start = a2.start
    /\ ret[1].end = a1.end

\* C11: the text of merge_entries(e1, e2) is the text of the entry that
\* starts first, a line break, then the other text; with equal starts the
\* text of e1 comes first.
C11_MergeTextOrder ==
    fn = "merge_entries"
    => ret[1].text = IF a2.start < a1.start THEN a2.text \o a1.text
                                            ELSE a1.text \o a2.text

\* a merge of two entries with the same start but different ends
C11_Witness ==
    /\ fn = "merge_entries"
    /\ a1.start = a2.start
    /\ a1.end < a2.end
    /\ ret[1].text = a1.text \o a2.text

\* C12: formatting m gives the fields hour = m div 3600000, min = (m div
\* 60000) mod 60, sec = (m div 1000) mod 60, ms = m mod 1000, and parsing
\* the formatted timecode gives m back.
C12_CodecRoundTrip ==
    /\ fn = "msecs_to_srt_timecode"
       => ret[1] = <<a1 \div 3600000, (a1 \div 60000) % 60, (a1 \div 1000) % 60, a1 % 1000>>
    /\ fn = "srt_timecode_to_msecs"
       => /\ ret[1] = a1
          /\ ret[1] = a2[1] * 3600000 + a2[2] * 60000 + a2[3] * 1000 + a2[4]

\* a count with hours, minutes, seconds and milliseconds all non-zero went
\* through both conversions
C12_Witness ==
    /\ fn = "srt_timecode_to_msecs"
    /\ a2[1] > 0 /\ a2[2] > 0 /\ a2[3] > 0 /\ a2[4] > 0
    /\ ret = <<a1>>

\* C15 as claimed: for all pairs of entries, end < start included,
\* has_overlap(e1, e2) equals e1.start <= e2.end and e2.start <= e1.end.
C15_FourCasesEqualPredicate ==
    fn = "has_overlap" => ret[1] = (a1.start <= a2.end /\ a2.start <= a1.end)

\* C15 amended: for all pairs of entries the single predicate implies
\* has_overlap, and has_overlap is true where the predicate is false only
\* for pairs in which an entry has end < start.
C15_PredicateImpliesFourCases ==
    fn = "has_overlap"
    => /\ (a1.start <= a2.end /\ a2.start <= a1.end) => ret[1]
       /\ (ret[1] /\ ~(a1.start <= a2.end /\ a2.start <= a1.end))
          => (a1.end < a1.start \/ a2.end < a2.start)

\* has_overlap answered TRUE where the single predicate is false
C15_Witness ==
    /\ fn = "has_overlap"
    /\ ret = <<TRUE>>
    /\ ~(a1.start <= a2.end /\ a2.start <= a1.end)
    /\ a1.end < a1.start

\* C16: print_entry raises the excessive-line warning iff the text it prints
\* has three or more lines; so the merge of a pair in which an entry has two
\* or more lines raises it, and the merge of two single-line entries does not.
C16_ExcessiveLines ==
    /\ fn = "print_entry"
       => (ret[2] = << <<"lines", a1>> >>) = (Len(a1.text) >= 3)
    /\ fn = "print_entry" => (ret[2] = <<>>) = (Len(a1.text) < 3)
    /\ fn = "print_merged"
       => /\ (ret[2] # <<>>) = (Len(ret[1].text) >= 3)
          /\ (Len(a1.text) >= 2 \/ Len(a2.text) >= 2) => ret[2] # <<>>
          /\ (Len(a1.text) = 1 /\ Len(a2.text) = 1) => ret[2] = <<>>

\* the merge of a two-line entry with a single-line entry raised the warning
C16_Witness ==
    /\ fn = "print_merged"
    /\ Len(a1.text) = 2
    /\ Len(a2.text) = 1
    /\ Len(ret[1].text) = 3
    /\ ret[2] # <<>>

\* a block that _do_entry cannot turn into an entry
Malformed(b) == b.arrow # "-->" \/ Len(b.start) # 4 \/ Len(b.end) # 4

\* the entry a well-formed block stands for
BlockEntry(b) ==
    SubtitleEntry(srt_timecode_to_msecs(b.start), srt_timecode_to_msecs(b.end), b.text)

\* C13: for a file of n well-formed blocks and any skip_first, skip_last >= 0
\* read_subs returns the entries at positions skip_first+1 .. n-skip_last in
\* order (none when skip_first + skip_last >= n) and raises nothing.
C13_TrimNeverAborts ==
    (fn = "read_subs" /\ \A p \in 1 .. Len(a1.blocks) : ~Malformed(a1.blocks[p]))
    => LET n    == Len(a1.blocks)
           kept == IF a1.skip_first + a1.skip_last >= n THEN 0
                   ELSE n - a1.skip_last - a1.skip_first
       IN  ret = <<"ok", [p \in 1 .. kept |-> BlockEntry(a1.blocks[a1.skip_first + p])]>>

\* C17: an overlap warning names each of its two entries by the position the
\* entry has in its file (counted from 0, as the code counts), whatever
\* skip_first is.
C17_WarningNamesFilePosition ==
    \A k \in 1 .. Len(warnings) :
        warnings[k][1] = "overlap"
        => /\ warnings[k][2] + 1 <= Len(in1.blocks)
           /\ warnings[k][4] = BlockEntry(in1.blocks[warnings[k][2] + 1])
           /\ warnings[k][3] + 1 <= Len(in2.blocks)
           /\ warnings[k][5] = BlockEntry(in2.blocks[warnings[k][3] + 1])

\* C18: nothing is printed unless every block of both files is well formed:
\* with a malformed block anywhere the scan never starts and the run, once
\* aborted, has printed nothing.
C18_NoOutputBeforeParsed ==
    /\ (\E p \in 1 .. Len(in1.blocks) : Malformed(in1.blocks[p]))
       => (pc \in {"read1", "aborted"} /\ out = <<>>)
    /\ (\E p \in 1 .. Len(in2.blocks) : Malformed(in2.blocks[p]))
       => (pc \in {"read1", "read2", "aborted"} /\ out = <<>>)
    /\ pc = "aborted" => out = <<>>
    /\ out # <<>> => pc \in {"loop", "drain1", "drain2", "done"}

\* the run aborted on the last block of the second file, the first file and
\* the first block of the second being well formed
C18_Witness ==
    /\ pc = "aborted"
    /\ Len(in1.blocks) = 2
    /\ \A p \in 1 .. 2 : ~Malformed(in1.blocks[p])
    /\ Len(in2.blocks) = 2
    /\ ~Malformed(in2.blocks[1])
    /\ Malformed(in2.blocks[2])
    /\ Len(subs1) = 2
    /\ out = <<>>

\* the position of a cursor in its source: the number of entries before it
CursorPos(c, subs) == IF c = None THEN Len(subs) ELSE c[1]

\* a loop iteration is about to run its body
IterationPending ==
    \/ BothPending
    \/ pc = "drain1" /\ s1 # None
    \/ pc = "drain2" /\ s2 # None

\* the excessive-line warnings among the warnings raised
LineWarnings == { k \in 1 .. Len(warnings) : warnings[k][1] = "lines" }

\* C14: for any two sources (unsorted, with end before start, with texts of
\* many lines) the loop ends with both cursors exhausted and both sources
\* consumed; every loop iteration advances at least one cursor and no cursor
\* ever moves backwards; a step that raises a warning, overlap or excessive
\* lines, prints its block and leaves the run where it was in the loop.
C14_Terminates ==
    /\ <>(pc = "done" /\ s1 = None /\ s2 = None
          /\ i1 = Len(subs1) /\ i2 = Len(subs2))
    /\ [][ /\ CursorPos(s1', subs1) >= CursorPos(s1, subs1)
           /\ CursorPos(s2', subs2) >= CursorPos(s2, subs2)
           /\ IterationPending
              => CursorPos(s1', subs1) + CursorPos(s2', subs2)
                 > CursorPos(s1, subs1) + CursorPos(s2, subs2)
           /\ Len(warnings') > Len(warnings)
              => (Len(out') = Len(out) + 1 /\ pc' = pc) ]_vars

\* a run reached its end after an overlap warning, the excessive-line warning
\* of a merge in the main loop and the excessive-line warning of an entry
\* printed by the first drain loop
C14_Witness ==
    /\ pc = "done"
    /\ s1 = None /\ s2 = None
    /\ Len(subs1) = 1 /\ Len(subs2) = 1
    /\ Len(out) = 2
    /\ Cardinality(OverlapWarnings(Len(warnings))) = 1
    /\ \E k \in LineWarnings : warnings[k] = <<"lines", merge_entries(subs1[1], subs2[1])>>
    /\ \E k \in LineWarnings : warnings[k] = <<"lines", subs1[1]>>

\* a source entry with text t, merged or not, gave printed block o its text
TextIn(t, o, others) ==
    \/ o.text = t
    \/ \E q \in 1 .. Len(others) :
          o.text = t \o others[q].text \/ o.text = others[q].text \o t

\* C19: at the end of the run every entry of either source has its text in
\* a printed block, as the whole text or as one of the two parts of a merge.
C19_NoEntryLost ==
    pc = "done"
    => /\ \A p \in 1 .. Len(subs1) :
             \E k \in 1 .. Len(out) : TextIn(subs1[p].text, out[k], subs2)
       /\ \A q \in 1 .. Len(subs2) :
             \E k \in 1 .. Len(out) : TextIn(subs2[q].text, out[k], subs1)

\* a finished run of two entries per source that merged a pair and printed
\* other entries on their own
C19_Witness ==
    /\ pc = "done"
    /\ Len(subs1) = 2 /\ Len(subs2) = 2
    /\ Cardinality(OverlapWarnings(Len(warnings))) = 1
    /\ Len(out) = 4
    /\ \E k \in 1 .. 4 : out[k].text = <<"A2">>
    /\ \E k \in 1 .. 4 : out[k].text = <<"B1">>

\* no two entries of the source have intersecting intervals
SelfFree(subs) ==
    \A p \in 1 .. Len(subs), q \in 1 .. Len(subs) :
        p < q => ~Intersects(subs[p], subs[q])

\* the printed block is a source entry as it was read, not a merge
Unmerged(o) ==
    \/ \E p \in 1 .. Len(subs1) : OutEntry(o) = subs1[p]
    \/ \E q \in 1 .. Len(subs2) : OutEntry(o) = subs2[q]

\* C20 as claimed: with each source sorted and free of overlaps of its own,
\* no two distinct emitted entries have intersecting intervals.
C20_OutputFreeOfOverlaps ==
    (SelfFree(subs1) /\ SelfFree(subs2))
    => \A j \in 1 .. Len(out), k \in 1 .. Len(out) :
          j < k => ~Intersects(OutEntry(out[j]), OutEntry(out[k]))

\* C20 amended: with each source sorted and free of overlaps of its own, two
\* distinct emitted entries intersect only if at least one of them is a
\* merged entry.
C20_UnmergedFreeOfOverlaps ==
    (SelfFree(subs1) /\ SelfFree(subs2))
    => \A j \in 1 .. Len(out), k \in 1 .. Len(out) :
          (j < k /\ Unmerged(out[j]) /\ Unmerged(out[k]))
          => ~Intersects(OutEntry(out[j]), OutEntry(out[k]))

\* a finished run over such sources in which a merged entry intersects an
\* entry printed after it, and entries printed unmerged are both there
C20_Witness ==
    /\ pc = "done"
    /\ SelfFree(subs1) /\ SelfFree(subs2)
    /\ Len(out) = 4
    /\ ~Unmerged(out[2])
    /\ Intersects(OutEntry(out[2]), OutEntry(out[3]))
    /\ Unmerged(out[1]) /\ Unmerged(out[3]) /\ Unmerged(out[4])

====
